---- MODULE Spec2Model ----
(***************************************************************************)
(* Model of scripts/music_info.py: get_album_info, get_track_genres and    *)
(* get_artist_genres.  One invocation runs at a time (the module is        *)
(* synchronous); every remote call is one step whose response is chosen    *)
(* nondeterministically among the shapes the remote can send.              *)
(***************************************************************************)
EXTENDS Integers, Sequences, FiniteSets

\* ------------------------------------------------------------------ bounds
MaxArtists == 2
MaxTags == 2
MaxLimit == 2

\* ------------------------------------------------------------------ inputs
Tags == {"rock", "pop", "jazz"}
\* a tag entry of the remote payload that has no "name" key
NoName == "<no name>"
ArtistNames == {"", "A"}
TrackIds == {"", "id1"}
TrackName == "song"
RemoteTrackName == "Song (remote)"
Limits == 1..MaxLimit

BoundedSeq(S, n) == UNION {[1..k -> S] : k \in 0..n}
\* "tag" lists of a payload: every list of named tags, and the lists that have
\* an entry without a name at any position
TagLists == BoundedSeq(Tags, MaxTags) \cup BoundedSeq({"rock", NoName}, MaxTags)
\* *artist_names of get_artist_genres: the first k artists of a roster (the
\* function reads a name only to put it into its query)
Roster == [k \in 1..MaxArtists |-> IF k = 2 THEN "" ELSE "A"]
ArtistNameSeqs == {SubSeq(Roster, 1, k) : k \in 0..MaxArtists}
\* *artists of get_track_genres: none, or any first name (the empty string
\* included) followed by further artists
ArtistSeqs ==
    {<<>>} \cup {<<a>> \o SubSeq(Roster, 2, k) : a \in ArtistNames, k \in 1..MaxArtists}

\* JSON bodies of artist.getTopTags; failed = requests.get raised
ArtistResponses ==
    {[failed |-> TRUE, has_toptags |-> FALSE, has_tag |-> FALSE, tag |-> <<>>],
     [failed |-> FALSE, has_toptags |-> FALSE, has_tag |-> FALSE, tag |-> <<>>],
     [failed |-> FALSE, has_toptags |-> TRUE, has_tag |-> FALSE, tag |-> <<>>]}
    \cup {[failed |-> FALSE, has_toptags |-> TRUE, has_tag |-> TRUE, tag |-> s] :
             s \in TagLists}

\* JSON bodies of track.getInfo
TrackResponses ==
    {[failed |-> TRUE, has_track |-> FALSE, has_name |-> FALSE,
      has_toptags |-> FALSE, has_tag |-> FALSE, tag |-> <<>>],
     [failed |-> FALSE, has_track |-> FALSE, has_name |-> FALSE,
      has_toptags |-> FALSE, has_tag |-> FALSE, tag |-> <<>>]}
    \cup {[failed |-> FALSE, has_track |-> TRUE, has_name |-> n,
           has_toptags |-> FALSE, has_tag |-> FALSE, tag |-> <<>>] : n \in BOOLEAN}
    \cup {[failed |-> FALSE, has_track |-> TRUE, has_name |-> n,
           has_toptags |-> TRUE, has_tag |-> FALSE, tag |-> <<>>] : n \in BOOLEAN}
    \cup {[failed |-> FALSE, has_track |-> TRUE, has_name |-> n,
           has_toptags |-> TRUE, has_tag |-> TRUE, tag |-> s] :
             n \in BOOLEAN, s \in TagLists}

\* results of sp.track
AlbumResponses ==
    {[failed |-> TRUE, has_album |-> FALSE, album_complete |-> FALSE, has_name |-> FALSE]}
    \cup {[failed |-> FALSE, has_album |-> a, album_complete |-> c, has_name |-> n] :
             a \in BOOLEAN, c \in BOOLEAN, n \in BOOLEAN}

VARIABLES
    op,         \* the function being executed (or last executed)
    pc,         \* "idle", "request" (about to issue a remote call), "done"
                \* (returned or raised, the caller has the outcome)
    args,       \* arguments of the invocation
    i,          \* get_artist_genres: index of the artist the loop is at (0 in
                \* the frames of the other functions, which have no such local)
    all_tags,   \* get_artist_genres: the list all_tags (<<>> in other frames)
    calls,      \* remote queries issued by this invocation, in order
    responses,  \* what the remote answered to each of them
    outcome,    \* how the invocation ended
    earlier     \* history: an invocation has completed before this one

vars == <<op, pc, args, i, all_tags, calls, responses, outcome, earlier>>

\* ------------------------------------------------------------ python helpers
Take(s, n) == SubSeq(s, 1, IF n < Len(s) THEN n ELSE Len(s))

Range(s) == {s[k] : k \in 1..Len(s)}

Running == [status |-> "running", exc |-> "", value |-> [none |-> TRUE]]
Raise(e) == [status |-> "raise", exc |-> e, value |-> [none |-> TRUE]]
Return(v) == [status |-> "return", exc |-> "", value |-> v]

\* [tag["name"] for tag in tags]: KeyError on an entry without "name"
HasNames(tags) == \A k \in 1..Len(tags) : tags[k] # NoName

\* Counter(all_tags): occurrences of t
Count(t, s) == Cardinality({k \in 1..Len(s) : s[k] = t})

\* Counter(all_tags): the keys in first-insertion order
RECURSIVE CounterKeys(_)
CounterKeys(s) ==
    IF s = <<>> THEN <<>>
    ELSE LET front == CounterKeys(SubSeq(s, 1, Len(s) - 1))
             last == s[Len(s)]
         IN IF last \in Range(front) THEN front ELSE Append(front, last)

\* the item goes before the items of equal count: ties in last-seen order
RECURSIVE InsertItemBeforeTies(_, _)
InsertItemBeforeTies(sorted, item) ==
    IF sorted = <<>> THEN <<item>>
    ELSE IF sorted[1][2] > item[2]
         THEN <<sorted[1]>> \o InsertItemBeforeTies(Tail(sorted), item)
         ELSE <<item>> \o sorted

\* one (tag, count) item of the Counter placed into a list already sorted by
\* descending count, after every item whose count is not smaller (stable)
RECURSIVE InsertItem(_, _)
InsertItem(sorted, item) ==
    IF sorted = <<>> THEN <<item>>
    ELSE IF sorted[1][2] >= item[2]
         THEN <<sorted[1]>> \o InsertItem(Tail(sorted), item)
         ELSE <<item>> \o sorted

RECURSIVE SortItems(_)
SortItems(items) ==
    IF items = <<>> THEN <<>>
    ELSE InsertItem(SortItems(SubSeq(items, 1, Len(items) - 1)), items[Len(items)])

\* most_common() without its argument: every item
most_common_all(tags, limit) ==
    LET keys == CounterKeys(tags)
        items == [k \in 1..Len(keys) |-> <<keys[k], Count(keys[k], tags)>>]
    IN SortItems(items)

\* tag_counts = Counter(all_tags); tag_counts.most_common(limit)
most_common(tags, limit) ==
    LET keys == CounterKeys(tags)
        items == [k \in 1..Len(keys) |-> <<keys[k], Count(keys[k], tags)>>]
    IN Take(SortItems(items), limit)

\* top_genres = [tag for tag, _ in tag_counts.most_common(limit)]
top_genres(tags, limit) ==
    LET mc == most_common(tags, limit)
    IN [k \in 1..Len(mc) |-> mc[k][1]]

\* ------------------------------------------------------------ get_album_info
album_result(track) ==
    IF track.failed THEN Raise("SpotifyException")
    ELSE IF ~track.has_album \/ ~track.album_complete \/ ~track.has_name
         THEN Raise("KeyError")
         ELSE Return([track_name |-> RemoteTrackName, album_type |-> "album",
                      album_name |-> "Album", release_date |-> "2020-01-01"])

\* if not track_id
not_track_id(track_id) == track_id = ""

get_album_info_call ==
    /\ pc = "idle"
    /\ \E track_id \in TrackIds :
        /\ op' = "get_album_info"
        /\ args' = [track_id |-> track_id]
        /\ calls' = <<>>
        /\ responses' = <<>>
        /\ IF not_track_id(track_id)
           THEN outcome' = Raise("ValueError") /\ pc' = "done"
           ELSE outcome' = Running /\ pc' = "request"
    /\ i' = 0
    /\ all_tags' = <<>>
    /\ UNCHANGED earlier

get_album_info_request ==
    /\ pc = "request"
    /\ op = "get_album_info"
    /\ \E track \in AlbumResponses :
        /\ calls' = Append(calls, [method |-> "sp.track", track_id |-> args.track_id])
        /\ responses' = Append(responses, track)
        /\ outcome' = album_result(track)
    /\ pc' = "done"
    /\ UNCHANGED <<op, args, i, all_tags, earlier>>

\* ---------------------------------------------------------- get_track_genres
\* tags = data["track"].get("toptags", {}).get("tag", [])
track_tags(data) ==
    IF data.has_toptags /\ data.has_tag THEN data.tag ELSE <<>>

\* the comprehension over tags instead of tags[:limit]
track_genres_unsliced(tags, limit) == tags

\* the entries the comprehension [tag["name"] for tag in tags[:limit]] visits
track_genres(tags, limit) == Take(tags, limit)

\* without the test of line 81: data["track"] raises on a missing track
track_result_unchecked(data, artist_name, limit) ==
    IF data.failed THEN Raise("ConnectionError")
    ELSE IF ~data.has_track THEN Raise("KeyError")
         ELSE LET genres == track_genres(track_tags(data), limit)
              IN IF ~HasNames(genres) THEN Raise("KeyError")
                 ELSE IF ~data.has_name THEN Raise("KeyError")
                 ELSE Return([track |-> RemoteTrackName, artist |-> artist_name,
                              genres |-> genres])

track_result(data, artist_name, limit) ==
    IF data.failed THEN Raise("ConnectionError")
    ELSE IF ~data.has_track
         THEN Return([error |-> "Track not found", genres |-> <<>>])
         ELSE LET genres == track_genres(track_tags(data), limit)
              IN IF ~HasNames(genres) THEN Raise("KeyError")
                 ELSE IF ~data.has_name THEN Raise("KeyError")
                 ELSE Return([track |-> RemoteTrackName, artist |-> artist_name,
                              genres |-> genres])

never_not_artists(artists) == FALSE

\* if not artists
not_artists(artists) == artists = <<>>

get_track_genres_call ==
    /\ pc = "idle"
    /\ \E artists \in ArtistSeqs, limit \in Limits :
        /\ op' = "get_track_genres"
        /\ args' = [track_name |-> TrackName, artists |-> artists, limit |-> limit]
        /\ calls' = <<>>
        /\ responses' = <<>>
        /\ IF not_artists(artists)
           THEN outcome' = Raise("ValueError") /\ pc' = "done"
           ELSE outcome' = Running /\ pc' = "request"
    /\ i' = 0
    /\ all_tags' = <<>>
    /\ UNCHANGED earlier

get_track_genres_request ==
    /\ pc = "request"
    /\ op = "get_track_genres"
    /\ \E data \in TrackResponses :
        /\ calls' = Append(calls, [method |-> "track.getInfo",
                                   artist |-> args.artists[1],
                                   track |-> args.track_name])
        /\ responses' = Append(responses, data)
        /\ outcome' = track_result(data, args.artists[1], args.limit)
    /\ pc' = "done"
    /\ UNCHANGED <<op, args, i, all_tags, earlier>>

\* --------------------------------------------------------- get_artist_genres
\* one pass of the loop body: the exception it raises ("" for none) and the
\* names it appends to all_tags
\* data["toptags"]["tag"] read without the test of line 123
artist_fetch_strict(data) ==
    IF data.failed THEN [exc |-> "ConnectionError", names |-> <<>>]
    ELSE IF data.has_toptags /\ data.has_tag
         THEN IF HasNames(data.tag)
              THEN [exc |-> "", names |-> data.tag]
              ELSE [exc |-> "KeyError", names |-> <<>>]
         ELSE [exc |-> "KeyError", names |-> <<>>]

\* the request wrapped in try/except: a failed call is skipped
artist_fetch_swallow(data) ==
    IF data.failed THEN [exc |-> "", names |-> <<>>]
    ELSE IF data.has_toptags /\ data.has_tag
         THEN IF HasNames(data.tag)
              THEN [exc |-> "", names |-> data.tag]
              ELSE [exc |-> "KeyError", names |-> <<>>]
         ELSE [exc |-> "", names |-> <<>>]

artist_fetch(data) ==
    IF data.failed THEN [exc |-> "ConnectionError", names |-> <<>>]
    ELSE IF data.has_toptags /\ data.has_tag
         THEN IF HasNames(data.tag)
              THEN [exc |-> "", names |-> data.tag]
              ELSE [exc |-> "KeyError", names |-> <<>>]
         ELSE [exc |-> "", names |-> <<>>]

never_not_artist_names(artist_names) == FALSE

\* if not artist_names
not_artist_names(artist_names) == artist_names = <<>>

\* all_tags as a module-level list that line 110 does not empty
get_artist_genres_call_stale ==
    /\ pc = "idle"
    /\ \E artist_names \in ArtistNameSeqs, limit \in Limits :
        /\ op' = "get_artist_genres"
        /\ args' = [artists |-> artist_names, limit |-> limit]
        /\ calls' = <<>>
        /\ responses' = <<>>
        /\ IF not_artist_names(artist_names)
           THEN /\ outcome' = Raise("ValueError")
                /\ pc' = "done"
                /\ all_tags' = <<>>
                /\ i' = 0
           ELSE /\ outcome' = Running
                /\ pc' = "request"
                /\ all_tags' = all_tags
                /\ i' = 1
    /\ UNCHANGED earlier

get_artist_genres_call ==
    /\ pc = "idle"
    /\ \E artist_names \in ArtistNameSeqs, limit \in Limits :
        /\ op' = "get_artist_genres"
        /\ args' = [artists |-> artist_names, limit |-> limit]
        /\ calls' = <<>>
        /\ responses' = <<>>
        /\ IF not_artist_names(artist_names)
           THEN /\ outcome' = Raise("ValueError")
                /\ pc' = "done"
                /\ all_tags' = <<>>
                /\ i' = 0
           ELSE /\ outcome' = Running
                /\ pc' = "request"
                /\ all_tags' = <<>>
                /\ i' = 1
    /\ UNCHANGED earlier

get_artist_genres_request ==
    /\ pc = "request"
    /\ op = "get_artist_genres"
    /\ \E data \in ArtistResponses :
        LET got == artist_fetch(data)
        IN /\ calls' = Append(calls, [method |-> "artist.getTopTags",
                                      artist |-> args.artists[i]])
           /\ responses' = Append(responses, data)
           /\ IF got.exc # ""
              THEN /\ outcome' = Raise(got.exc)
                   /\ pc' = "done"
                   /\ UNCHANGED <<i, all_tags>>
              ELSE /\ all_tags' = all_tags \o got.names
                   /\ IF i = Len(args.artists)
                      THEN /\ outcome' = Return([artists |-> args.artists,
                                                 genres |-> top_genres(all_tags', args.limit)])
                           /\ pc' = "done"
                           /\ i' = i
                      ELSE /\ outcome' = outcome
                           /\ pc' = "request"
                           /\ i' = i + 1
    /\ UNCHANGED <<op, args, earlier>>

\* ------------------------------------------------------------------- caller
\* The function has returned or raised: control is back in the caller, which
\* may call again.  The frame's list is not touched by the return.
return_to_caller ==
    /\ pc = "done"
    /\ pc' = "idle"
    /\ op' = "none"
    /\ args' = [none |-> TRUE]
    /\ i' = 0
    /\ calls' = <<>>
    /\ responses' = <<>>
    /\ outcome' = Running
    /\ earlier' = TRUE
    /\ UNCHANGED all_tags

\* ------------------------------------------------------------- specification
Init ==
    /\ op = "none"
    /\ pc = "idle"
    /\ args = [none |-> TRUE]
    /\ i = 0
    /\ all_tags = <<>>
    /\ calls = <<>>
    /\ responses = <<>>
    /\ outcome = Running
    /\ earlier = FALSE

Next ==
    \/ get_album_info_call
    \/ get_album_info_request
    \/ get_track_genres_call
    \/ get_track_genres_request
    \/ get_artist_genres_call
    \/ get_artist_genres_request
    \/ return_to_caller

Spec == Init /\ [][Next]_vars

TypeOK ==
    /\ op \in {"none", "get_album_info", "get_track_genres", "get_artist_genres"}
    /\ pc \in {"idle", "request", "done"}
    /\ outcome.status \in {"running", "return", "raise"}
    /\ Len(calls) = Len(responses)

\* ------------------------------------------------- what an invocation observed
Min(a, b) == IF a < b THEN a ELSE b

LastResponse == responses[Len(responses)]

\* the response carries a tag list
HasTagList(r) == ~r.failed /\ r.has_toptags /\ r.has_tag

\* the tag names one response contributed (none when the call did not complete
\* the loop body)
Contribution(r) == IF HasTagList(r) /\ HasNames(r.tag) THEN r.tag ELSE <<>>

\* all tag names fetched by this invocation, artist by artist in query order
RECURSIVE Fetched(_)
Fetched(rs) ==
    IF rs = <<>> THEN <<>>
    ELSE Fetched(SubSeq(rs, 1, Len(rs) - 1)) \o Contribution(rs[Len(rs)])

\* occurrences of tag t in the fetched names f
Occurrences(f, t) == Cardinality({k \in 1..Len(f) : f[k] = t})

\* where t is first encountered in f
FirstSeen(f, t) ==
    CHOOSE k \in 1..Len(f) : f[k] = t /\ \A j \in 1..(k - 1) : f[j] # t

\* a ranks before b: more frequent, or as frequent and encountered first
RanksBefore(f, a, b) ==
    \/ Occurrences(f, a) > Occurrences(f, b)
    \/ Occurrences(f, a) = Occurrences(f, b) /\ FirstSeen(f, a) < FirstSeen(f, b)

ArtistsReturned ==
    op = "get_artist_genres" /\ pc = "done" /\ outcome.status = "return"

TrackDone == op = "get_track_genres" /\ pc = "done"

\* --------------------------------------------------------------------- claims

\* C1: get_artist_genres returns at most limit genres, and every returned genre
\* is a tag name of one of the tag lists fetched for its artists.
C1_AtMostLimitFromFetched ==
    ArtistsReturned =>
        LET genres == outcome.value.genres
        IN /\ Len(genres) <= args.limit
           /\ \A k \in 1..Len(genres) :
                /\ genres[k] \in Tags
                /\ \E j \in 1..Len(responses) :
                      HasTagList(responses[j]) /\ genres[k] \in Range(responses[j].tag)

C1_Witness ==
    /\ ArtistsReturned
    /\ Len(args.artists) = 2
    /\ Len(outcome.value.genres) = args.limit
    /\ Cardinality(Range(Fetched(responses))) > args.limit

\* C2: the returned genres are the first limit entries of the distinct fetched
\* tags ordered by descending total occurrence count, ties in first-seen order.
C2_RankedByCountThenFirstSeen ==
    ArtistsReturned =>
        LET genres == outcome.value.genres
            f == Fetched(responses)
            distinct == Range(f)
        IN /\ Len(genres) = Min(args.limit, Cardinality(distinct))
           /\ Range(genres) \subseteq distinct
           /\ \A k, l \in 1..Len(genres) : k < l => RanksBefore(f, genres[k], genres[l])
           /\ \A t \in distinct \ Range(genres) :
                \A k \in 1..Len(genres) : RanksBefore(f, genres[k], t)

C2_Witness ==
    /\ ArtistsReturned
    /\ Len(responses) = 2
    /\ responses[1].tag = <<"rock", "pop">>
    /\ responses[2].tag = <<"pop", "jazz">>
    /\ args.limit = 2
    /\ outcome.value.genres = <<"pop", "rock">>

\* C3 as stated: a track lookup whose artist is the empty string fails with
\* ValueError and issues no remote call.
C3_EmptyStringArtistRejected ==
    (op = "get_track_genres" /\ args.artists # <<>> /\ args.artists[1] = "") =>
        /\ calls = <<>>
        /\ pc = "done" => outcome = Raise("ValueError")

\* C3 amended: a track lookup called with no artist at all fails with
\* ValueError and issues no remote call; with any first artist name, the empty
\* string included, it issues one query for that name.
C3_NoArtistRejected ==
    /\ (op = "get_track_genres" /\ args.artists = <<>>) =>
          /\ pc = "done"
          /\ outcome = Raise("ValueError")
          /\ calls = <<>>
    /\ (op = "get_track_genres" /\ args.artists # <<>> /\ pc = "done") =>
          /\ Len(calls) = 1
          /\ calls[1].artist = args.artists[1]

C3_Witness ==
    /\ op = "get_track_genres"
    /\ args.artists = <<>>
    /\ outcome = Raise("ValueError")
    /\ calls = <<>>

\* C4: when the remote reports that the track does not exist, get_track_genres
\* returns (does not raise) a result with an error marker and no genres.
C4_NotFoundIsAResult ==
    (TrackDone /\ responses # <<>> /\ ~LastResponse.failed /\ ~LastResponse.has_track) =>
        /\ outcome.status = "return"
        /\ "error" \in DOMAIN outcome.value
        /\ outcome.value.error = "Track not found"
        /\ outcome.value.genres = <<>>

C4_Witness ==
    /\ TrackDone
    /\ responses # <<>>
    /\ ~LastResponse.failed
    /\ ~LastResponse.has_track
    /\ outcome.status = "return"
    /\ outcome.value.genres = <<>>

\* C5: for an existing track with tag list T, get_track_genres returns exactly
\* the first min(limit, |T|) tag names of T, in the remote's order.
C5_FirstLimitInRemoteOrder ==
    (TrackDone /\ responses # <<>> /\ ~LastResponse.failed /\ LastResponse.has_track) =>
        LET T == IF LastResponse.has_toptags /\ LastResponse.has_tag
                 THEN LastResponse.tag ELSE <<>>
            n == Min(args.limit, Len(T))
            wellFormed == LastResponse.has_name /\ \A k \in 1..n : T[k] # NoName
        IN /\ wellFormed => outcome.status = "return"
           /\ outcome.status = "return" =>
                /\ Len(outcome.value.genres) = n
                /\ \A k \in 1..n : outcome.value.genres[k] = T[k]

C5_Witness ==
    /\ TrackDone
    /\ responses # <<>>
    /\ LastResponse.tag = <<"rock", "jazz">>
    /\ args.limit = 1
    /\ outcome.status = "return"
    /\ outcome.value.genres = <<"rock">>

\* C6: an artist whose response lacks a tag list contributes no tags and does
\* not fail get_artist_genres: the next artist is queried, and the result is
\* the one an empty tag list would have given.
C6_MissingTagListSkipped ==
    (op = "get_artist_genres" /\ responses # <<>>
        /\ ~LastResponse.failed /\ ~HasTagList(LastResponse)) =>
        /\ outcome.status # "raise"
        /\ all_tags = Fetched(SubSeq(responses, 1, Len(responses) - 1))
        /\ IF Len(responses) < Len(args.artists)
           THEN pc = "request" /\ i = Len(responses) + 1
           ELSE /\ ArtistsReturned
                /\ outcome.value.genres =
                      top_genres(Fetched(SubSeq(responses, 1, Len(responses) - 1)) \o <<>>,
                                 args.limit)

C6_Witness ==
    /\ ArtistsReturned
    /\ Len(responses) = 2
    /\ ~HasTagList(responses[1])
    /\ HasTagList(responses[2])
    /\ outcome.value.genres # <<>>

\* C7: get_artist_genres with no artist and get_album_info with an empty track
\* id fail with ValueError before any remote call is issued.
C7_EmptyInputRejected ==
    /\ (op = "get_artist_genres" /\ args.artists = <<>>) =>
          pc = "done" /\ outcome = Raise("ValueError") /\ calls = <<>>
    /\ (op = "get_album_info" /\ args.track_id = "") =>
          pc = "done" /\ outcome = Raise("ValueError") /\ calls = <<>>

C7_Witness ==
    /\ op = "get_artist_genres"
    /\ args.artists = <<>>
    /\ outcome = Raise("ValueError")
    /\ calls = <<>>

\* C8: a transport failure of a Last.fm call ends the operation with the
\* transport exception: no result is returned, the call is not repeated and
\* get_artist_genres queries no later artist.
C8_TransportFailureTerminal ==
    (op \in {"get_track_genres", "get_artist_genres"}) =>
        /\ \A k \in 1..Len(responses) :
              responses[k].failed =>
                  /\ k = Len(responses)
                  /\ Len(calls) = k
                  /\ pc = "done"
                  /\ outcome = Raise("ConnectionError")
        /\ Len(calls) <= Len(args.artists)
        /\ \A k \in 1..Len(calls) : calls[k].artist = args.artists[k]
        /\ op = "get_track_genres" => Len(calls) <= 1

C8_Witness ==
    /\ op = "get_artist_genres"
    /\ Len(args.artists) = 2
    /\ Len(calls) = 1
    /\ responses[1].failed
    /\ outcome = Raise("ConnectionError")

\* C9 as stated: a response that misses an expected field (tag list, a tag's
\* name, the track's name) never makes get_track_genres or get_artist_genres
\* fail: every answered invocation returns a result.
C9_MissingFieldNeverFails ==
    (op \in {"get_track_genres", "get_artist_genres"} /\ pc = "done"
        /\ responses # <<>> /\ \A k \in 1..Len(responses) : ~responses[k].failed) =>
        outcome.status = "return"

\* C10: the frequency table of a get_artist_genres invocation holds the tags of
\* its own responses only, whatever ran before; its result is ranked from them.
C10_NoCarryOver ==
    (op = "get_artist_genres" /\ args.artists # <<>>) =>
        /\ all_tags = Fetched(responses)
        /\ ArtistsReturned => Range(outcome.value.genres) \subseteq Range(Fetched(responses))
        /\ ArtistsReturned =>
              Len(outcome.value.genres) =
                  Min(args.limit, Cardinality(Range(Fetched(responses))))

C10_Witness ==
    /\ ArtistsReturned
    /\ earlier
    /\ all_tags # <<>>
    /\ all_tags = Fetched(responses)

====
